---- MODULE Spec2Model ----
(***************************************************************************)
(* Model of mock-embedded-io (src/src/lib.rs): the scripted Source and     *)
(* Sink mocks, their builder methods, the read / write / flush             *)
(* implementations and the OwnedHandle adapter.                            *)
(*                                                                         *)
(* One behaviour follows one mock object (a Source or a Sink) from         *)
(* `new()` on.  The program variables are `queue` and `data`; `handle`     *)
(* says whether an OwnedHandle currently borrows the mock; `life` says     *)
(* whether the mock is usable, was moved out by into_inner_data, or the    *)
(* thread panicked.  The remaining variables are history variables that    *)
(* record what the caller did and saw.                                     *)
(***************************************************************************)
EXTENDS Naturals, Sequences, FiniteSets

\* ---------------------------------------------------------------- bounds
MaxItems == 2      \* outcomes appended by the builder methods in one run
MaxDataLen == 2    \* bytes in one Data outcome
MaxBuf == 2        \* length of a caller buffer
MaxAccept == 2     \* largest argument of accept_data

Byte == {0, 1}
ErrorKinds == {"BrokenPipe", "TimedOut"}

\* Caller buffers: one buffer of every length 0..MaxBuf.  read and write
\* branch on the length of the buffer only; the contents 2,1,2,.. differ
\* from position to position and from the byte 0 of scripted data.
Bufs == {[i \in 1..k |-> 1 + (i % 2)] : k \in 0..MaxBuf}
\* Scripted data: the chunks of every length 0..MaxDataLen whose bytes
\* alternate, starting with either byte.
DataChunks ==
    {[i \in 1..k |-> (i + b) % 2] : k \in 0..MaxDataLen, b \in Byte}

Min(a, b) == IF a < b THEN a ELSE b
IsPrefix(s, t) == Len(s) <= Len(t) /\ SubSeq(t, 1, Len(s)) = s
NumKind(s, k) == Cardinality({i \in DOMAIN s : s[i].kind = k})

\* ------------------------------------------------------- outcome types
MockError(kind) == kind

Data(bytes) == [kind |-> "Data", bytes |-> bytes]
ReadItemError(e) == [kind |-> "Error", e |-> e]
ReadItemClosed == [kind |-> "Closed"]

AcceptData(n) == [kind |-> "AcceptData", n |-> n]
WriteItemError(e) == [kind |-> "Error", e |-> e]
WriteItemClosed == [kind |-> "Closed"]

\* ------------------------------------------------------- call results
Ok(n) == [kind |-> "Ok", n |-> n]
Err(e) == [kind |-> "Err", e |-> e]
OkUnit == [kind |-> "OkUnit"]
Panic == [kind |-> "Panic"]
NoResult == [kind |-> "None"]
Bool(b) == [kind |-> "Bool", b |-> b]

VARIABLES
    mock,          \* "Source" or "Sink": the type of the mock object
    life,          \* "live", "consumed" (moved by into_inner_data), "panicked"
    handle,        \* TRUE while an OwnedHandle borrows the mock
    queue,         \* Source.queue / Sink.queue
    data,          \* Sink.data, the received log
    inner,         \* the value returned by into_inner_data
    wa,            \* the write_all call in progress, if any
    script,        \* history: every outcome appended so far, in order
    out,           \* history: bytes returned by reads, concatenated
    acceptBufs,    \* history: buffers of writes served by AcceptData
    okBufs,        \* history: buffers of writes that did not return Err
    acc,           \* history: counts returned against the current head
    errsReturned,  \* history: number of Err results of read / write
    closedServed,  \* history: number of Ok(0) results served by Closed
    consuming,     \* history: TRUE once read or write was called
    nzCalls,       \* history: returned reads / writes of a non-empty buffer
    accepted,      \* history: sum of the counts returned as Ok by write
    last           \* history: the most recent call, its arguments, result

vars == <<mock, life, handle, queue, data, inner, wa, script, out,
          acceptBufs, okBufs, acc, errsReturned, closedServed, consuming,
          nzCalls, accepted, last>>

hist == <<out, acceptBufs, okBufs, acc, errsReturned, closedServed,
          consuming, nzCalls, accepted>>

Call(op, buf, bufAfter, result, queueBefore, dataBefore, accTotal) ==
    [op |-> op, via |-> IF handle THEN "handle" ELSE "direct",
     buf |-> buf, bufAfter |-> bufAfter, result |-> result,
     queueBefore |-> queueBefore, dataBefore |-> dataBefore,
     accTotal |-> accTotal]

Plain(op, result) == Call(op, <<>>, <<>>, result, queue, data, 0)

NoWriteAll == [active |-> FALSE, buf |-> <<>>, arg |-> <<>>, log0 |-> <<>>]

\* Source::new / Sink::new
Init ==
    /\ mock \in {"Source", "Sink"}
    /\ life = "live"
    /\ handle = FALSE
    /\ queue = <<>>
    /\ data = <<>>
    /\ inner = <<>>
    /\ wa = NoWriteAll
    /\ script = <<>>
    /\ out = <<>>
    /\ acceptBufs = <<>>
    /\ okBufs = <<>>
    /\ acc = 0
    /\ errsReturned = 0
    /\ closedServed = 0
    /\ consuming = FALSE
    /\ nzCalls = 0
    /\ accepted = 0
    /\ last = [op |-> "new", via |-> "direct", buf |-> <<>>,
               bufAfter |-> <<>>, result |-> NoResult,
               queueBefore |-> <<>>, dataBefore |-> <<>>, accTotal |-> 0]

\* -------------------------------------------------------------- builder
\* The builder methods take `self` by value: they need the mock itself,
\* so no OwnedHandle may be alive, and they may be called at any time.
CanBuild(m) ==
    /\ mock = m
    /\ life = "live"
    /\ ~handle
    /\ ~wa.active
    /\ Len(script) < MaxItems

PushBack(item) ==
    /\ queue' = Append(queue, item)
    /\ script' = Append(script, item)
    /\ last' = Plain("build", NoResult)
    /\ UNCHANGED <<mock, life, handle, data, inner, wa, hist>>

SourceData == \E bytes \in DataChunks :
    CanBuild("Source") /\ PushBack(Data(bytes))

SourceError == \E e \in ErrorKinds :
    CanBuild("Source") /\ PushBack(ReadItemError(MockError(e)))

SourceClosed == CanBuild("Source") /\ PushBack(ReadItemClosed)

SinkAcceptData == \E n \in 0..MaxAccept :
    CanBuild("Sink") /\ PushBack(AcceptData(n))

SinkError == \E e \in ErrorKinds :
    CanBuild("Sink") /\ PushBack(WriteItemError(MockError(e)))

SinkClosed == CanBuild("Sink") /\ PushBack(WriteItemClosed)

\* Mutant: the test is inverted.
IsConsumed_Negated == queue # <<>>

\* Source::is_consumed / Sink::is_consumed: self.queue.is_empty()
IsConsumed == queue = <<>>

\* is_consumed(&self): needs the mock itself, not borrowed by a handle
IsConsumedCall ==
    /\ life = "live"
    /\ ~handle
    /\ ~wa.active
    /\ last' = Plain("is_consumed", Bool(IsConsumed))
    /\ UNCHANGED <<mock, life, handle, queue, data, inner, wa, script, hist>>

\* ----------------------------------------------------------- Source::read
\* Mutant: exhaustion reported as a zero-length success.
Exhausted_Ok0 == Ok(0)

\* `.pop_front().expect(..)` on an empty queue
Exhausted == Panic

\* Mutant: the data that did not fit the buffer is dropped.
ReadData_DropPend(bytes, rest, buf) ==
    LET n == Min(Len(buf), Len(bytes))
        to_send == SubSeq(bytes, 1, n)
    IN  [queue |-> rest,
         buf |-> to_send \o SubSeq(buf, n + 1, Len(buf)),
         result |-> Ok(n)]

\* Mutant: push_back instead of push_front for the pending data.
ReadData_PushBack(bytes, rest, buf) ==
    LET n == Min(Len(buf), Len(bytes))
        to_send == SubSeq(bytes, 1, n)
        to_pend == SubSeq(bytes, n + 1, Len(bytes))
    IN  [queue |-> IF Len(to_pend) > 0 THEN rest \o <<Data(to_pend)>>
                   ELSE rest,
         buf |-> to_send \o SubSeq(buf, n + 1, Len(buf)),
         result |-> Ok(n)]

\* Mutant: the part already sent is put back instead of the pending part.
ReadData_PendsSent(bytes, rest, buf) ==
    LET n == Min(Len(buf), Len(bytes))
        to_send == SubSeq(bytes, 1, n)
        to_pend == SubSeq(bytes, n + 1, Len(bytes))
    IN  [queue |-> IF Len(to_pend) > 0 THEN <<Data(to_send)>> \o rest
                   ELSE rest,
         buf |-> to_send \o SubSeq(buf, n + 1, Len(buf)),
         result |-> Ok(n)]

\* Mutant: the pending part is queued at the front and at the back.
ReadData_DuplicatesPend(bytes, rest, buf) ==
    LET n == Min(Len(buf), Len(bytes))
        to_send == SubSeq(bytes, 1, n)
        to_pend == SubSeq(bytes, n + 1, Len(bytes))
    IN  [queue |-> IF Len(to_pend) > 0
                   THEN <<Data(to_pend)>> \o rest \o <<Data(to_pend)>>
                   ELSE rest,
         buf |-> to_send \o SubSeq(buf, n + 1, Len(buf)),
         result |-> Ok(n)]

\* Mutant: the rest of the caller's buffer is cleared.
ReadData_ZeroFills(bytes, rest, buf) ==
    LET n == Min(Len(buf), Len(bytes))
        to_send == SubSeq(bytes, 1, n)
        to_pend == SubSeq(bytes, n + 1, Len(bytes))
    IN  [queue |-> IF Len(to_pend) > 0 THEN <<Data(to_pend)>> \o rest
                   ELSE rest,
         buf |-> to_send \o [i \in 1..(Len(buf) - n) |-> 0],
         result |-> Ok(n)]

\* ReadItem::Data arm
ReadData(bytes, rest, buf) ==
    LET n == Min(Len(buf), Len(bytes))
        to_send == SubSeq(bytes, 1, n)
        to_pend == SubSeq(bytes, n + 1, Len(bytes))
    IN  [queue |-> IF Len(to_pend) > 0 THEN <<Data(to_pend)>> \o rest
                   ELSE rest,
         buf |-> to_send \o SubSeq(buf, n + 1, Len(buf)),
         result |-> Ok(n)]

\* Mutant: the error stays at the head and is returned again.
ReadError_Replays(e, rest, buf) ==
    [queue |-> <<ReadItemError(e)>> \o rest, buf |-> buf, result |-> Err(e)]

\* ReadItem::Error arm
ReadError(e, rest, buf) == [queue |-> rest, buf |-> buf, result |-> Err(e)]

\* Mutant: end of stream is sticky.
ReadClosed_Sticky(rest, buf) ==
    [queue |-> <<ReadItemClosed>> \o rest, buf |-> buf, result |-> Ok(0)]

\* ReadItem::Closed arm
ReadClosed(rest, buf) == [queue |-> rest, buf |-> buf, result |-> Ok(0)]

SourceRead(q, buf) ==
    IF q = <<>> THEN [queue |-> q, buf |-> buf, result |-> Exhausted]
    ELSE LET next_item == Head(q)
             rest == Tail(q)
         IN  CASE next_item.kind = "Data" ->
                      ReadData(next_item.bytes, rest, buf)
               [] next_item.kind = "Error" -> ReadError(next_item.e, rest, buf)
               [] next_item.kind = "Closed" -> ReadClosed(rest, buf)

\* Mutant: the handle works on a copy of the queue.
HandleRead_OnClone(q, buf) == [SourceRead(q, buf) EXCEPT !.queue = q]

\* impl Read for OwnedHandle: self.inner.read(buf)
HandleRead(q, buf) == SourceRead(q, buf)

\* embedded_io::Read::read and embedded_io_async::Read::read, called on
\* the Source when no handle is alive, on the OwnedHandle when one is.
Read == \E buf \in Bufs :
    /\ mock = "Source"
    /\ life = "live"
    /\ LET r == IF handle THEN HandleRead(queue, buf)
                ELSE SourceRead(queue, buf)
       IN  /\ queue' = r.queue
           /\ life' = IF r.result.kind = "Panic" THEN "panicked" ELSE life
           /\ out' = IF r.result.kind = "Ok"
                     THEN out \o SubSeq(r.buf, 1, r.result.n) ELSE out
           /\ errsReturned' = IF r.result.kind = "Err"
                              THEN errsReturned + 1 ELSE errsReturned
           /\ closedServed' = IF queue # <<>> /\ Head(queue).kind = "Closed"
                                 /\ r.result = Ok(0)
                              THEN closedServed + 1 ELSE closedServed
           /\ nzCalls' = IF Len(buf) > 0 /\ r.result.kind # "Panic"
                         THEN nzCalls + 1 ELSE nzCalls
           /\ last' = Call("read", buf, r.buf, r.result, queue, data, 0)
    /\ consuming' = TRUE
    /\ UNCHANGED <<mock, handle, data, inner, wa, script, acceptBufs,
                   okBufs, acc, accepted>>

\* ------------------------------------------------------------ Sink::write
\* Mutant: off by one in the test for a remainder.
WriteAcceptData_DropsLastByte(maxsize, rest, log, buf) ==
    LET n == Min(Len(buf), maxsize)
        remaining == maxsize - n
    IN  [queue |-> IF remaining > 1 THEN <<AcceptData(remaining)>> \o rest
                   ELSE rest,
         data |-> log \o buf,
         result |-> Ok(n)]

\* Mutant: only the accepted bytes are logged.
WriteAcceptData_LogsAccepted(maxsize, rest, log, buf) ==
    LET n == Min(Len(buf), maxsize)
        remaining == maxsize - n
    IN  [queue |-> IF remaining > 0 THEN <<AcceptData(remaining)>> \o rest
                   ELSE rest,
         data |-> log \o SubSeq(buf, 1, n),
         result |-> Ok(n)]

\* Mutant: the remainder is put back also when it is 0.
WriteAcceptData_KeepsZero(maxsize, rest, log, buf) ==
    LET n == Min(Len(buf), maxsize)
        remaining == maxsize - n
    IN  [queue |-> <<AcceptData(remaining)>> \o rest,
         data |-> log \o buf,
         result |-> Ok(n)]

\* Mutant: the log is replaced by the buffer.
WriteAcceptData_ReplacesLog(maxsize, rest, log, buf) ==
    LET n == Min(Len(buf), maxsize)
        remaining == maxsize - n
    IN  [queue |-> IF remaining > 0 THEN <<AcceptData(remaining)>> \o rest
                   ELSE rest,
         data |-> buf,
         result |-> Ok(n)]

\* Mutant: the length of the buffer is returned, not the accepted count.
WriteAcceptData_ReturnsLen(maxsize, rest, log, buf) ==
    LET n == Min(Len(buf), maxsize)
        remaining == maxsize - n
    IN  [queue |-> IF remaining > 0 THEN <<AcceptData(remaining)>> \o rest
                   ELSE rest,
         data |-> log \o buf,
         result |-> Ok(Len(buf))]

\* WriteItem::AcceptData arm
WriteAcceptData(maxsize, rest, log, buf) ==
    LET n == Min(Len(buf), maxsize)
        remaining == maxsize - n
    IN  [queue |-> IF remaining > 0 THEN <<AcceptData(remaining)>> \o rest
                   ELSE rest,
         data |-> log \o buf,
         result |-> Ok(n)]

\* Mutant: the buffer is logged before the error is returned.
WriteError_LogsBuf(e, rest, log, buf) ==
    [queue |-> rest, data |-> log \o buf, result |-> Err(e)]

\* WriteItem::Error arm
WriteError(e, rest, log, buf) ==
    [queue |-> rest, data |-> log, result |-> Err(e)]

\* Mutant: the buffer is logged although nothing is accepted.
WriteClosed_LogsBuf(rest, log, buf) ==
    [queue |-> rest, data |-> log \o buf, result |-> Ok(0)]

\* Mutant: once closed, always closed.
WriteClosed_Sticky(rest, log, buf) ==
    [queue |-> <<WriteItemClosed>> \o rest, data |-> log, result |-> Ok(0)]

\* WriteItem::Closed arm
WriteClosed(rest, log, buf) ==
    [queue |-> rest, data |-> log, result |-> Ok(0)]

SinkWrite(q, log, buf) ==
    IF q = <<>> THEN [queue |-> q, data |-> log, result |-> Exhausted]
    ELSE LET next_chunk == Head(q)
             rest == Tail(q)
         IN  CASE next_chunk.kind = "AcceptData" ->
                      WriteAcceptData(next_chunk.n, rest, log, buf)
               [] next_chunk.kind = "Error" ->
                      WriteError(next_chunk.e, rest, log, buf)
               [] next_chunk.kind = "Closed" -> WriteClosed(rest, log, buf)

\* impl Write for OwnedHandle: self.inner.write(buf)
HandleWrite(q, log, buf) == SinkWrite(q, log, buf)

\* One call of write(buf), on the Sink when no handle is alive, on the
\* OwnedHandle when one is, with the bookkeeping of the history variables.
WriteCall(buf) ==
    LET r == IF handle THEN HandleWrite(queue, data, buf)
             ELSE SinkWrite(queue, data, buf)
        served == IF queue = <<>> THEN "None" ELSE Head(queue).kind
        count == IF r.result.kind = "Ok" THEN r.result.n ELSE 0
    IN  /\ queue' = r.queue
        /\ data' = r.data
        /\ life' = IF r.result.kind = "Panic" THEN "panicked" ELSE life
        /\ acceptBufs' = IF served = "AcceptData" THEN acceptBufs \o buf
                         ELSE acceptBufs
        /\ okBufs' = IF r.result.kind = "Ok" THEN okBufs \o buf ELSE okBufs
        /\ acc' = IF served = "None" THEN acc
                  ELSE IF Len(r.queue) = Len(queue) THEN acc + count ELSE 0
        /\ errsReturned' = IF r.result.kind = "Err"
                           THEN errsReturned + 1 ELSE errsReturned
        /\ closedServed' = IF served = "Closed" /\ r.result = Ok(0)
                           THEN closedServed + 1 ELSE closedServed
        /\ consuming' = TRUE
        /\ nzCalls' = IF Len(buf) > 0 /\ r.result.kind # "Panic"
                      THEN nzCalls + 1 ELSE nzCalls
        /\ accepted' = accepted + count
        /\ last' = Call("write", buf, buf, r.result, queue, data, acc + count)

\* embedded_io::Write::write, embedded_io_async::Write::write and the
\* OwnedHandle forwarders.
Write == \E buf \in Bufs :
    /\ mock = "Sink"
    /\ life = "live"
    /\ ~wa.active
    /\ WriteCall(buf)
    /\ UNCHANGED <<mock, handle, inner, wa, script, out>>

\* Mutant: flush takes the next outcome from the queue.
SinkFlush_Pops(q, log) ==
    [queue |-> IF q = <<>> THEN q ELSE Tail(q), data |-> log,
     result |-> OkUnit]

\* Sink::flush: Ok(())
SinkFlush(q, log) == [queue |-> q, data |-> log, result |-> OkUnit]

\* impl Write for OwnedHandle: self.inner.flush()
HandleFlush(q, log) == SinkFlush(q, log)

\* flush, called on the Sink or on the OwnedHandle
Flush ==
    /\ mock = "Sink"
    /\ life = "live"
    /\ ~wa.active
    /\ LET r == IF handle THEN HandleFlush(queue, data)
                ELSE SinkFlush(queue, data)
       IN  /\ queue' = r.queue
           /\ data' = r.data
           /\ last' = Call("flush", <<>>, <<>>, r.result, queue, data, 0)
    /\ UNCHANGED <<mock, life, handle, inner, wa, script, hist>>

\* ------------------------------------------------- Write::write_all
\* The provided method of the Write trait, called on the Sink or on an
\* OwnedHandle: it calls write on the part of the buffer that was not
\* accepted yet, until that part is empty.
WriteAllCall == \E buf \in Bufs :
    /\ mock = "Sink"
    /\ life = "live"
    /\ ~wa.active
    /\ wa' = [active |-> TRUE, buf |-> buf, arg |-> buf, log0 |-> data]
    /\ last' = Plain("write_all_call", NoResult)
    /\ UNCHANGED <<mock, life, handle, queue, data, inner, script, hist>>

\* One iteration of the loop of write_all: a write of the rest.  The call
\* goes on after Ok(n), n > 0; it ends without Ok(()) after Err (returned
\* to the caller) and after Ok(0) (an error or a panic, by the version of
\* embedded_io), and with the panic of write on an empty queue.
WriteAllLoop ==
    /\ mock = "Sink"
    /\ life = "live"
    /\ wa.active
    /\ wa.buf # <<>>
    /\ WriteCall(wa.buf)
    /\ LET res == last'.result
       IN  wa' = IF res.kind = "Ok" /\ res.n > 0
                 THEN [wa EXCEPT !.buf = SubSeq(wa.buf, res.n + 1,
                                                Len(wa.buf))]
                 ELSE NoWriteAll
    /\ UNCHANGED <<mock, handle, inner, script, out>>

\* The loop of write_all ends with nothing left to write: Ok(()).
WriteAllReturn ==
    /\ mock = "Sink"
    /\ life = "live"
    /\ wa.active
    /\ wa.buf = <<>>
    /\ wa' = NoWriteAll
    /\ last' = Call("write_all", wa.arg, wa.arg, OkUnit, queue, wa.log0, 0)
    /\ UNCHANGED <<mock, life, handle, queue, data, inner, script, hist>>

\* ----------------------------------------------------- into_inner_data
IntoInnerData ==
    /\ mock = "Sink"
    /\ life = "live"
    /\ ~handle
    /\ ~wa.active
    /\ inner' = data
    /\ life' = "consumed"
    /\ last' = Plain("into_inner_data", NoResult)
    /\ UNCHANGED <<mock, handle, queue, data, wa, script, hist>>

\* ---------------------------------------------------------- OwnedHandle
OwnedHandleTake ==
    /\ life = "live"
    /\ ~handle
    /\ ~wa.active
    /\ handle' = TRUE
    /\ last' = Plain("owned_handle", NoResult)
    /\ UNCHANGED <<mock, life, queue, data, inner, wa, script, hist>>

OwnedHandleDrop ==
    /\ life = "live"
    /\ handle
    /\ ~wa.active
    /\ handle' = FALSE
    /\ last' = Plain("drop", NoResult)
    /\ UNCHANGED <<mock, life, queue, data, inner, wa, script, hist>>

Next ==
    \/ SourceData
    \/ SourceError
    \/ SourceClosed
    \/ SinkAcceptData
    \/ SinkError
    \/ SinkClosed
    \/ IsConsumedCall
    \/ Read
    \/ Write
    \/ Flush
    \/ WriteAllCall
    \/ WriteAllLoop
    \/ WriteAllReturn
    \/ IntoInnerData
    \/ OwnedHandleTake
    \/ OwnedHandleDrop

Spec == Init /\ [][Next]_vars

\* ============================================================== claims
OnlyData(s) == \A i \in DOMAIN s : s[i].kind = "Data"

RECURSIVE ConcatData(_)
ConcatData(s) == IF s = <<>> THEN <<>> ELSE Head(s).bytes \o ConcatData(Tail(s))

IsCall(op) == last.op = op /\ last.queueBefore # <<>>
Served == Head(last.queueBefore)
OldTail == Tail(last.queueBefore)
\* the outcome, as it was appended, that served the last call
ServedOriginal == script[Len(script) - Len(last.queueBefore) + 1]

\* C1: for a Source scripted with Data outcomes only, the bytes returned
\* by the reads so far, concatenated, are a prefix of the appended data,
\* concatenated, and are all of it once is_consumed() is true.
C1_ReadsReassembleData ==
    (mock = "Source" /\ OnlyData(script)) =>
        /\ IsPrefix(out, ConcatData(script))
        /\ IsConsumed => out = ConcatData(script)

\* two chunks of two bytes were drained by reads of one byte
C1_Witness ==
    /\ mock = "Source" /\ OnlyData(script) /\ Len(script) = 2
    /\ Len(script[1].bytes) = 2 /\ Len(script[2].bytes) = 2
    /\ script[1].bytes # script[2].bytes
    /\ last.op = "read" /\ Len(last.buf) = 1
    /\ IsConsumed /\ Len(out) = 4

\* C2: a read served by Data(bytes) returns Ok(n), n = min(len(buf),
\* len(bytes)), puts bytes[0..n] in buf[0..n] and leaves Data(bytes[n..])
\* before the old tail if n < len(bytes), the old tail otherwise; nothing
\* of a second outcome is returned.
C2_ReadDataArm ==
    (IsCall("read") /\ Served.kind = "Data") =>
        LET bytes == Served.bytes
            n == Min(Len(last.buf), Len(bytes))
        IN  /\ last.result = Ok(n)
            /\ SubSeq(last.bufAfter, 1, n) = SubSeq(bytes, 1, n)
            /\ queue = IF n < Len(bytes)
                       THEN <<Data(SubSeq(bytes, n + 1, Len(bytes)))>>
                            \o OldTail
                       ELSE OldTail

\* a buffer larger than the first Data, a second Data right behind it
C2_Witness ==
    /\ IsCall("read") /\ Served.kind = "Data"
    /\ Len(Served.bytes) = 1 /\ Len(last.buf) = 2
    /\ OldTail # <<>> /\ Head(OldTail).kind = "Data"
    /\ Head(OldTail).bytes # <<>>
    /\ last.result = Ok(1) /\ queue = OldTail

\* C3: a write of L bytes served by AcceptData(N) returns Ok(min(L, N));
\* if L < N the head becomes AcceptData(N - L) in place; the outcome leaves
\* the queue exactly when the counts returned against it sum to the N it
\* was appended with.
C3_AcceptLimitArm ==
    (IsCall("write") /\ Served.kind = "AcceptData") =>
        LET N == Served.n
            L == Len(last.buf)
        IN  /\ last.result = Ok(Min(L, N))
            /\ L < N => queue = <<AcceptData(N - L)>> \o OldTail
            /\ (queue = OldTail) <=> (last.accTotal = ServedOriginal.n)
            /\ (queue # OldTail) => last.accTotal < ServedOriginal.n

\* the second of two writes of one byte against accept_data(2)
C3_Witness ==
    /\ IsCall("write") /\ Served = AcceptData(1)
    /\ ServedOriginal = AcceptData(2)
    /\ last.result = Ok(1) /\ last.accTotal = 2
    /\ OldTail # <<>> /\ queue = OldTail

\* C4: when write_all(buf) returns Ok, the received log is the log before
\* the call followed by exactly the bytes of buf.
C4_WriteAllLogsExactlyData ==
    (last.op = "write_all" /\ last.result = OkUnit) =>
        data = last.dataBefore \o last.buf

\* C5 (as claimed): the value of into_inner_data is the concatenation of
\* the buffers of all writes that did not return an error.
C5_InnerIsNonErrorBuffers == life = "consumed" => inner = okBufs

\* C5 (amended): the value of into_inner_data is the concatenation of the
\* buffers of all writes served by an AcceptData outcome.
C5_InnerIsAcceptedBuffers == life = "consumed" => inner = acceptBufs

\* a log taken after writes served by AcceptData, Closed and Error
C5_Witness ==
    /\ life = "consumed" /\ inner # <<>>
    /\ okBufs # acceptBufs
    /\ Len(script) = 2 /\ queue = <<>>

\* C6: a write served by AcceptData(n) appends the whole buffer to the
\* received log, also when n is 0 or smaller than the buffer.
C6_AcceptLogsWholeBuffer ==
    (IsCall("write") /\ Served.kind = "AcceptData") =>
        data = last.dataBefore \o last.buf

\* two bytes written against accept_data(0): none accepted, two logged
C6_Witness ==
    /\ IsCall("write") /\ Served = AcceptData(0)
    /\ Len(last.buf) = 2 /\ last.result = Ok(0)
    /\ last.dataBefore # <<>>
    /\ Len(data) = Len(last.dataBefore) + 2

\* C7: a write served by Error(code) returns Err(code), one served by
\* Closed returns Ok(0); both leave the log as it was and remove exactly
\* that outcome.
C7_ErrorClosedArms ==
    (IsCall("write") /\ Served.kind \in {"Error", "Closed"}) =>
        /\ last.result = IF Served.kind = "Error" THEN Err(Served.e)
                         ELSE Ok(0)
        /\ data = last.dataBefore
        /\ queue = OldTail

\* a buffer of two bytes met an Error while the log was not empty
C7_Witness ==
    /\ IsCall("write") /\ Served.kind = "Error"
    /\ Len(last.buf) = 2 /\ data # <<>>
    /\ last.result.kind = "Err" /\ queue = <<>>

\* C8: a read or write on an empty queue panics: it returns neither Ok
\* nor Err, and the call ends.
C8_ExhaustionPanics ==
    (last.op \in {"read", "write"} /\ last.queueBefore = <<>>) =>
        /\ last.result = Panic
        /\ life = "panicked"
        /\ queue = <<>>

\* a queue emptied by earlier calls
C8_Witness ==
    /\ last.op \in {"read", "write"} /\ last.queueBefore = <<>>
    /\ script # <<>> /\ life = "panicked"

\* C9: an Error(code) at the head is returned as Err(code) by one call
\* and removed by it, so the next call meets the outcome behind it; every
\* Error appended was returned once or is still queued.
C9_ErrorReturnedOnce ==
    /\ (last.op \in {"read", "write"} /\ last.queueBefore # <<>>
        /\ Served.kind = "Error") =>
            (last.result = Err(Served.e) /\ queue = OldTail)
    /\ errsReturned + NumKind(queue, "Error") = NumKind(script, "Error")

\* the call after the one that returned the error met the next outcome
C9_Witness ==
    /\ last.op \in {"read", "write"} /\ Len(last.queueBefore) = 1
    /\ Len(script) = 2 /\ script[1].kind = "Error"
    /\ errsReturned = 1 /\ last.result.kind = "Ok" /\ queue = <<>>

\* C10: a Closed at the head makes one call return Ok(0) and is removed
\* by it; every Closed appended served one call or is still queued.
C10_ClosedServedOnce ==
    /\ (last.op \in {"read", "write"} /\ last.queueBefore # <<>>
        /\ Served.kind = "Closed") =>
            (last.result = Ok(0) /\ queue = OldTail)
    /\ closedServed + NumKind(queue, "Closed") = NumKind(script, "Closed")

\* the call after the one served by Closed met the next outcome
C10_Witness ==
    /\ last.op \in {"read", "write"} /\ Len(last.queueBefore) = 1
    /\ Len(script) = 2 /\ script[1].kind = "Closed"
    /\ closedServed = 1 /\ last.result.kind = "Err" /\ queue = <<>>

\* ------------------------------------------------------------ C11 - C20
IsIo(op) == op \in {"read", "write", "flush", "write_all"}

Size(item) ==
    CASE item.kind = "Data" -> Len(item.bytes)
      [] item.kind = "AcceptData" -> item.n
      [] OTHER -> 0

RECURSIVE SumSize(_)
SumSize(s) == IF s = <<>> THEN 0 ELSE Size(Head(s)) + SumSize(Tail(s))

IsSuffix(s, t) == Len(s) <= Len(t) /\ SubSeq(t, Len(t) - Len(s) + 1, Len(t)) = s

\* number of outcomes that left the queue
Gone == Len(script) - Len(queue)

\* C11: is_consumed() returns false when an outcome is queued and true
\* when the queue is empty, and no read, write or flush call makes an
\* empty queue non-empty again.
C11_IsConsumedTracksQueue ==
    /\ [](last.op = "is_consumed" => last.result = Bool(queue = <<>>))
    /\ [][(queue = <<>> /\ IsIo(last'.op)) => queue' = <<>>]_vars

\* is_consumed() returned true after the script was drained
C11_Witness ==
    /\ last.op = "is_consumed" /\ last.result = Bool(TRUE)
    /\ Len(script) = 2 /\ nzCalls >= 2

\* C12: read, write and flush called on an OwnedHandle return what the
\* call on the mock itself returns and leave queue, log and buffer as that
\* call leaves them; dropping the handle changes neither queue nor log.
C12_HandleForwards ==
    /\ (last.via = "handle" /\ last.op = "read") =>
          LET d == SourceRead(last.queueBefore, last.buf)
          IN  last.result = d.result /\ queue = d.queue
              /\ last.bufAfter = d.buf
    /\ (last.via = "handle" /\ last.op = "write") =>
          LET d == SinkWrite(last.queueBefore, last.dataBefore, last.buf)
          IN  last.result = d.result /\ queue = d.queue /\ data = d.data
    /\ (last.via = "handle" /\ last.op = "flush") =>
          LET d == SinkFlush(last.queueBefore, last.dataBefore)
          IN  last.result = d.result /\ queue = d.queue /\ data = d.data
    /\ last.op = "drop" =>
          (queue = last.queueBefore /\ data = last.dataBefore)

\* a read through the handle that took part of a Data outcome
C12_Witness ==
    /\ last.via = "handle" /\ last.op = "read"
    /\ last.result = Ok(1) /\ Len(last.queueBefore) = 2
    /\ Len(queue) = 2 /\ queue # last.queueBefore

NonAbort ==
    /\ last.op \in {"read", "write"}
    /\ last.result.kind # "Panic"
    /\ last.queueBefore # <<>>

Progress ==
    \/ queue = OldTail
    \/ /\ queue # <<>>
       /\ Tail(queue) = OldTail
       /\ Served.kind \in {"Data", "AcceptData"}
       /\ Head(queue).kind = Served.kind
       /\ Size(Head(queue)) < Size(Served)

\* C13 (as claimed): every read or write that returns removes the head
\* outcome or replaces it by a strictly smaller one of the same variant,
\* whatever the length of the buffer.
C13_StrictProgress == NonAbort => Progress

\* C13 (amended): it does so unless the buffer is empty and the head is a
\* Data of at least one byte or an AcceptData of at least 1; that call
\* returns Ok(0) and leaves the queue as it was.
C13_ProgressUnlessEmptyBuffer ==
    NonAbort =>
        \/ Progress
        \/ /\ Len(last.buf) = 0
           /\ Size(Served) > 0
           /\ last.result = Ok(0)
           /\ queue = last.queueBefore

\* a write of one byte turned accept_data(2) into AcceptData(1)
C13_Witness ==
    /\ NonAbort /\ last.op = "write" /\ Len(last.buf) = 1
    /\ Served = AcceptData(2) /\ OldTail # <<>>
    /\ queue = <<AcceptData(1)>> \o OldTail

\* C14: the queue is a suffix of the appended outcomes, except that its
\* head may be what is left of the outcome at that place: a suffix of the
\* bytes of a Data, a smaller AcceptData; Error and Closed are whole.
C14_QueueIsSuffixOfScript ==
    /\ Gone >= 0
    /\ \A i \in 2..Len(queue) : queue[i] = script[Gone + i]
    /\ queue # <<>> =>
          LET h == Head(queue)
              o == script[Gone + 1]
          IN  /\ h.kind = o.kind
              /\ h.kind = "Data" => IsSuffix(h.bytes, o.bytes)
              /\ h.kind = "AcceptData" => h.n <= o.n
              /\ h.kind \in {"Error", "Closed"} => h = o

\* a shrunk Data at the head, an untouched outcome behind it
C14_Witness ==
    /\ Len(queue) = 2 /\ Len(script) = 2
    /\ script[1].kind = "Data" /\ Len(script[1].bytes) = 2
    /\ queue[1] = Data(SubSeq(script[1].bytes, 2, 2))
    /\ queue[2] = script[2]

\* C15 (as claimed): once a read or write was performed, no operation
\* adds an outcome: the queue never grows.
C15_NoGrowthAfterFirstCall ==
    [][consuming => Len(queue') <= Len(queue)]_vars

\* C15 (amended): only the builder methods add an outcome; they stay
\* callable after a read or write, and no other operation makes the queue
\* grow.
C15_OnlyBuildersGrowQueue ==
    [][last'.op # "build" => Len(queue') <= Len(queue)]_vars

\* an outcome appended after a read or write, then served
C15_Witness ==
    /\ consuming /\ last.op \in {"read", "write"}
    /\ Len(script) = 2 /\ Len(last.queueBefore) = 1 /\ queue = <<>>
    /\ nzCalls = 2

\* C16: flush returns Ok(()) and leaves queue and log unchanged, whatever
\* the queue holds.
C16_FlushIsNoOp ==
    last.op = "flush" =>
        /\ last.result = OkUnit
        /\ queue = last.queueBefore
        /\ data = last.dataBefore

\* flush with an Error at the head and a non-empty log
C16_Witness ==
    /\ last.op = "flush" /\ queue # <<>> /\ Head(queue).kind = "Error"
    /\ data # <<>> /\ last.result = OkUnit

\* C17: the received log is empty after new() and every step leaves the
\* old log as a prefix of the new one.
C17_LogAppendOnly ==
    /\ [](last.op = "new" => data = <<>>)
    /\ [][IsPrefix(data, data')]_vars

\* the log grew in two writes
C17_Witness ==
    /\ last.op = "write" /\ last.dataBefore # <<>>
    /\ Len(data) > Len(last.dataBefore)
    /\ IsPrefix(last.dataBefore, data)

\* C18: the returned calls made with a non-empty buffer, plus the outcomes
\* and bytes (resp. accept counts) still queued, never exceed the outcomes
\* and bytes (resp. accept counts) appended: every such call uses up an
\* outcome or a byte, so the queue is empty after at most that many.
C18_CallsBoundedByScript ==
    nzCalls + Len(queue) + SumSize(queue) <= Len(script) + SumSize(script)

\* a Data without bytes and a Data of two bytes drained in three reads
C18_Witness ==
    /\ mock = "Source" /\ IsConsumed /\ Len(script) = 2
    /\ script[1] = Data(<<>>) /\ script[2].kind = "Data"
    /\ Len(script[2].bytes) = 2
    /\ nzCalls = 3 /\ last.op = "read"

\* C19: a read that returns Ok(n) leaves buf[n..] as it was; a read served
\* by Error or Closed leaves all of buf as it was.
C19_ReadTouchesOnlyPrefix ==
    (last.op = "read" /\ last.result.kind # "Panic") =>
        LET n == IF last.result.kind = "Ok" THEN last.result.n ELSE 0
            len == Len(last.buf)
        IN  /\ Len(last.bufAfter) = len
            /\ n <= len
            /\ SubSeq(last.bufAfter, n + 1, len) = SubSeq(last.buf, n + 1, len)
            /\ Served.kind \in {"Error", "Closed"} => last.bufAfter = last.buf

\* one byte read into a buffer of two
C19_Witness ==
    /\ last.op = "read" /\ last.result = Ok(1) /\ Len(last.buf) = 2
    /\ last.bufAfter[1] # last.buf[1] /\ last.bufAfter[2] = last.buf[2]

\* the outcomes that were served at least once
Touched ==
    SubSeq(script, 1,
           IF queue # <<>> /\ Head(queue) # script[Gone + 1]
           THEN Gone + 1 ELSE Gone)

\* C20: on a Sink, the counts returned as Ok by write sum to at most the
\* AcceptData values used or partly used, so to at most the total
\* appended, and to at most the length of the received log.
C20_AcceptedBounded ==
    mock = "Sink" =>
        /\ accepted <= SumSize(Touched)
        /\ SumSize(Touched) <= SumSize(script)
        /\ accepted <= Len(data)

\* less accepted than logged, an AcceptData partly used
C20_Witness ==
    /\ mock = "Sink" /\ accepted = 2 /\ Len(data) > 2
    /\ queue # <<>> /\ Head(queue).kind = "AcceptData"
    /\ Head(queue) # script[Gone + 1]

====
